---------------------------- MODULE Spec2Model ----------------------------
(***************************************************************************)
(* A model of pseudoword.cc: the shell interface of the pseudoword         *)
(* generator.  The program is main() -> parse_args() -> application_main().*)
(* parse_args() is a getopt() loop over argv that fills a                  *)
(* program_arguments record; application_main() is the generation entry    *)
(* point, whose body in the source is "(void) args;".                      *)
(*                                                                         *)
(* Strings are sequences of one-character strings, so that getopt(),       *)
(* std::stoi and std::stod can be computed character by character.         *)
(***************************************************************************)
EXTENDS Integers, Sequences, FiniteSets, TLC

\* Largest number of command-line arguments after argv[0].
MaxArgs == 3

EXIT_SUCCESS == 0
EXIT_FAILURE == 1

INT_MIN == (-2147483647) - 1

---------------------------------------------------------------------------
\* The command-line words the model draws argv from.

W_c     == <<"-", "c">>
W_g     == <<"-", "g">>
W_n     == <<"-", "n">>
W_p     == <<"-", "p">>
W_w     == <<"-", "w">>
W_h     == <<"-", "h">>
W_dd    == <<"-", "-">>
W_hg    == <<"-", "h", "g">>
W_g0    == <<"-", "g", "0">>
W_0     == <<"0">>
W_m1    == <<"-", "1">>
W_2     == <<"2">>
W_half  == <<"0", ".", "5">>
W_z     == <<"z">>
W_big   == <<"9", "9", "9", "9", "9", "9", "9", "9", "9", "9">>

ArgWords == { W_c, W_g, W_n, W_p, W_w, W_h, W_dd, W_hg, W_g0,
              W_0, W_m1, W_2, W_half, W_z, W_big }

RECURSIVE SeqsUpTo(_, _)
SeqsUpTo(S, n) ==
    IF n = 0 THEN { <<>> }
    ELSE LET shorter == SeqsUpTo(S, n - 1)
         IN  shorter \cup { Append(s, x) : s \in shorter, x \in S }

ArgVectors == SeqsUpTo(ArgWords, MaxArgs)

---------------------------------------------------------------------------
\* struct program_arguments and its default member initialisers.
\* A double is the pair (m, e) standing for m / 10^e, without trailing zeros.

Zero == [m |-> 0, e |-> 0]

DefaultArgs ==
    [ compound_probability |-> Zero,
      ngram_length         |-> 3,
      number_of_words      |-> 10,
      constrained_prefix   |-> <<>>,
      dictionary_filename  |-> <<>>,
      done                 |-> FALSE ]

---------------------------------------------------------------------------
\* std::stoi / std::stod, as the C library's strtol / strtod compute them.

Digits == {"0", "1", "2", "3", "4", "5", "6", "7", "8", "9"}

DigitVal(c) ==
    CASE c = "0" -> 0 [] c = "1" -> 1 [] c = "2" -> 2 [] c = "3" -> 3
      [] c = "4" -> 4 [] c = "5" -> 5 [] c = "6" -> 6 [] c = "7" -> 7
      [] c = "8" -> 8 [] c = "9" -> 9

\* The digits of s from position i on: [n |-> minus their value, i |-> the
\* position after them, over |-> the value left the range of int].  The value
\* is accumulated negated, as INT_MIN has no positive counterpart.
RECURSIVE ScanDigits(_, _, _, _)
ScanDigits(s, i, n, over) ==
    IF i > Len(s) \/ s[i] \notin Digits
    THEN [n |-> n, i |-> i, over |-> over]
    ELSE LET d == DigitVal(s[i])
             lim  == (INT_MIN + 8) \div 10
             fits == n > lim \/ (n = lim /\ d <= 8)
         IN  IF over \/ ~fits
             THEN ScanDigits(s, i + 1, n, TRUE)
             ELSE ScanDigits(s, i + 1, n * 10 - d, FALSE)

\* std::stoi(s): [err |-> "" | "invalid_argument" | "out_of_range", val].
\* Characters after the number are ignored.
stoi(s) ==
    LET neg   == Len(s) >= 1 /\ s[1] = "-"
        start == IF Len(s) >= 1 /\ s[1] \in {"-", "+"} THEN 2 ELSE 1
        r     == ScanDigits(s, start, 0, FALSE)
    IN  IF r.i = start THEN [err |-> "invalid_argument", val |-> 0]
        ELSE IF r.over \/ (~neg /\ r.n = INT_MIN)
             THEN [err |-> "out_of_range", val |-> 0]
        ELSE [err |-> "", val |-> IF neg THEN r.n ELSE -r.n]

RECURSIVE Normalize(_)
Normalize(d) ==
    IF d.e > 0 /\ d.m % 10 = 0
    THEN Normalize([m |-> d.m \div 10, e |-> d.e - 1])
    ELSE d

\* std::stod(s) for decimal numerals: sign, digits, an optional fraction.
\* [err, val], val the pair (m, e).
stod(s) ==
    LET neg   == Len(s) >= 1 /\ s[1] = "-"
        start == IF Len(s) >= 1 /\ s[1] \in {"-", "+"} THEN 2 ELSE 1
        ip    == ScanDigits(s, start, 0, FALSE)
        dot   == ip.i <= Len(s) /\ s[ip.i] = "."
        fp    == IF dot THEN ScanDigits(s, ip.i + 1, ip.n, ip.over)
                 ELSE ip
        nfrac == IF dot THEN fp.i - (ip.i + 1) ELSE 0
        ndig  == (ip.i - start) + nfrac
    IN  IF ndig = 0 THEN [err |-> "invalid_argument", val |-> Zero]
        ELSE IF fp.over THEN [err |-> "out_of_range", val |-> Zero]
        ELSE [err |-> "",
              val |-> Normalize([m |-> IF neg THEN fp.n ELSE -fp.n,
                                 e |-> nfrac])]

---------------------------------------------------------------------------
\* POSIX getopt(argc, argv, ":c:g:n:p:w:h").

OptsWithArg == {"c", "g", "n", "p", "w"}
OptsNoArg   == {"h"}

IsOptionElem(e) == Len(e) >= 2 /\ e[1] = "-"

RECURSIVE SkipNonOptions(_, _)
SkipNonOptions(av, i) ==
    IF i <= Len(av) /\ ~IsOptionElem(av[i])
    THEN SkipNonOptions(av, i + 1)
    ELSE i

\* One call of getopt: oi is optind, nc the position of the next option
\* character inside argv[optind] (0: start a new element).  With posix the scan
\* stops at the first non-option; otherwise non-options are passed over (GNU
\* permutation).  ret is the returned character, "EOF" for -1.
GetOpt(av, oi, nc, posix) ==
    LET i == IF nc = 0 /\ ~posix THEN SkipNonOptions(av, oi) ELSE oi
    IN  IF nc = 0 /\ i > Len(av)
        THEN [ret |-> "EOF", optind |-> i, nextchar |-> 0, optarg |-> <<>>]
        ELSE IF nc = 0 /\ av[i] = W_dd
        THEN [ret |-> "EOF", optind |-> i + 1, nextchar |-> 0, optarg |-> <<>>]
        ELSE IF nc = 0 /\ ~IsOptionElem(av[i])
        THEN [ret |-> "EOF", optind |-> i, nextchar |-> 0, optarg |-> <<>>]
        ELSE
          LET e    == av[i]
              p    == IF nc = 0 THEN 2 ELSE nc
              c    == e[p]
              last == p = Len(e)
              stay == [optind   |-> IF last THEN i + 1 ELSE i,
                       nextchar |-> IF last THEN 0 ELSE p + 1]
          IN  IF c \in OptsNoArg
              THEN [ret |-> c, optind |-> stay.optind,
                    nextchar |-> stay.nextchar, optarg |-> <<>>]
              ELSE IF c \notin OptsWithArg
              THEN [ret |-> "?", optind |-> stay.optind,
                    nextchar |-> stay.nextchar, optarg |-> <<>>]
              ELSE IF ~last
              THEN [ret |-> c, optind |-> i + 1, nextchar |-> 0,
                    optarg |-> SubSeq(e, p + 1, Len(e))]
              ELSE IF i + 1 <= Len(av)
              THEN [ret |-> c, optind |-> i + 2, nextchar |-> 0,
                    optarg |-> av[i + 1]]
              ELSE [ret |-> ":", optind |-> i + 1, nextchar |-> 0,
                    optarg |-> <<>>]

---------------------------------------------------------------------------
\* The bodies of the switch cases of parse_args.

CaseC(a, optarg) == [a EXCEPT !.compound_probability = stod(optarg).val]

CaseG_fallthrough(a, optarg) ==
    [a EXCEPT !.ngram_length = stoi(optarg).val,
              !.number_of_words = stoi(optarg).val]

CaseG(a, optarg) == [a EXCEPT !.ngram_length = stoi(optarg).val]

CaseN(a, optarg) == [a EXCEPT !.number_of_words = stoi(optarg).val]

CaseP(a, optarg) == [a EXCEPT !.constrained_prefix = optarg]

CaseW(a, optarg) == [a EXCEPT !.dictionary_filename = optarg]

CaseH_notdone(a) == a

CaseH(a) == [a EXCEPT !.done = TRUE]

\* application_main(args): the pseudowords it writes, given those written so
\* far.  Its body is "(void) args;".
application_main(a, out) == out

---------------------------------------------------------------------------
VARIABLES
    argv,            \* argv[1 .. argc-1]
    posixly_correct, \* whether getopt stops at the first non-option
    optind,          \* getopt's optind
    nextchar,        \* getopt's position inside a group of option characters
    optch,           \* the last value getopt returned ("" before the first)
    args,            \* parse_args' local, then main's args
    pc,              \* "parse_args", "main", "catch", "exit"
    what,            \* e.what() of the exception in flight or caught
    exit_status,     \* main's return value, -1 while running
    usage_shown,     \* how many times show_usage wrote to std::cout
    words,           \* the pseudowords written by application_main
    app_calls,       \* history: invocations of application_main
    parsed_opts      \* history: option characters getopt has returned

vars == << argv, posixly_correct, optind, nextchar, optch, args, pc, what,
           exit_status, usage_shown, words, app_calls, parsed_opts >>

Init ==
    /\ argv \in ArgVectors
    /\ posixly_correct \in BOOLEAN
    /\ optind = 1
    /\ nextchar = 0
    /\ optch = ""
    /\ args = DefaultArgs
    /\ pc = "parse_args"
    /\ what = ""
    /\ exit_status = -1
    /\ usage_shown = 0
    /\ words = <<>>
    /\ app_calls = 0
    /\ parsed_opts = {}

NextOpt == GetOpt(argv, optind, nextchar, posixly_correct)

\* What every iteration of the getopt loop does besides its switch case.
Advance(g) ==
    /\ optind' = g.optind
    /\ nextchar' = g.nextchar
    /\ optch' = g.ret
    /\ UNCHANGED << argv, posixly_correct, exit_status, words, app_calls >>

Continue(g, a) ==
    /\ args' = a
    /\ parsed_opts' = parsed_opts \cup {g.ret}
    /\ pc' = "parse_args"
    /\ what' = ""

Throw(msg) ==
    /\ pc' = "catch"
    /\ what' = msg
    /\ UNCHANGED << args, parsed_opts >>

ParseC ==
    /\ pc = "parse_args"
    /\ LET g == NextOpt IN
         /\ g.ret = "c"
         /\ Advance(g)
         /\ UNCHANGED usage_shown
         /\ IF stod(g.optarg).err = ""
            THEN Continue(g, CaseC(args, g.optarg))
            ELSE Throw(stod(g.optarg).err)

ParseG ==
    /\ pc = "parse_args"
    /\ LET g == NextOpt IN
         /\ g.ret = "g"
         /\ Advance(g)
         /\ UNCHANGED usage_shown
         /\ IF stoi(g.optarg).err = ""
            THEN Continue(g, CaseG(args, g.optarg))
            ELSE Throw(stoi(g.optarg).err)

ParseN ==
    /\ pc = "parse_args"
    /\ LET g == NextOpt IN
         /\ g.ret = "n"
         /\ Advance(g)
         /\ UNCHANGED usage_shown
         /\ IF stoi(g.optarg).err = ""
            THEN Continue(g, CaseN(args, g.optarg))
            ELSE Throw(stoi(g.optarg).err)

ParseP ==
    /\ pc = "parse_args"
    /\ LET g == NextOpt IN
         /\ g.ret = "p"
         /\ Advance(g)
         /\ UNCHANGED usage_shown
         /\ Continue(g, CaseP(args, g.optarg))

ParseW ==
    /\ pc = "parse_args"
    /\ LET g == NextOpt IN
         /\ g.ret = "w"
         /\ Advance(g)
         /\ UNCHANGED usage_shown
         /\ Continue(g, CaseW(args, g.optarg))

ParseH ==
    /\ pc = "parse_args"
    /\ LET g == NextOpt IN
         /\ g.ret = "h"
         /\ Advance(g)
         /\ usage_shown' = usage_shown + 1
         /\ Continue(g, CaseH(args))

ParseMissing ==
    /\ pc = "parse_args"
    /\ LET g == NextOpt IN
         /\ g.ret = ":"
         /\ Advance(g)
         /\ UNCHANGED usage_shown
         /\ Throw("missing argument")

ParseUnknown ==
    /\ pc = "parse_args"
    /\ LET g == NextOpt IN
         /\ g.ret = "?"
         /\ Advance(g)
         /\ UNCHANGED usage_shown
         /\ Throw("unknown option")

\* getopt returned -1: parse_args returns args to main.
ParseReturn ==
    /\ pc = "parse_args"
    /\ LET g == NextOpt IN
         /\ g.ret = "EOF"
         /\ Advance(g)
         /\ pc' = "main"
         /\ UNCHANGED << args, parsed_opts, what, usage_shown >>

\* main: if (!args.done) application_main(args); then falls off its end.
MainRun ==
    /\ pc = "main"
    /\ ~args.done
    /\ words' = application_main(args, words)
    /\ app_calls' = app_calls + 1
    /\ pc' = "exit"
    /\ exit_status' = EXIT_SUCCESS
    /\ UNCHANGED << argv, posixly_correct, optind, nextchar, optch, args,
                    what, usage_shown, parsed_opts >>

MainDone ==
    /\ pc = "main"
    /\ args.done
    /\ pc' = "exit"
    /\ exit_status' = EXIT_SUCCESS
    /\ UNCHANGED << argv, posixly_correct, optind, nextchar, optch, args,
                    what, usage_shown, words, app_calls, parsed_opts >>

\* main: catch (std::exception& e) { ...; return EXIT_FAILURE; }
MainCatch ==
    /\ pc = "catch"
    /\ pc' = "exit"
    /\ exit_status' = EXIT_FAILURE
    /\ UNCHANGED << argv, posixly_correct, optind, nextchar, optch, args,
                    what, usage_shown, words, app_calls, parsed_opts >>

Next ==
    \/ ParseC
    \/ ParseG
    \/ ParseN
    \/ ParseP
    \/ ParseW
    \/ ParseH
    \/ ParseMissing
    \/ ParseUnknown
    \/ ParseReturn
    \/ MainRun
    \/ MainDone
    \/ MainCatch

Spec == Init /\ [][Next]_vars

---------------------------------------------------------------------------
TypeOK ==
    /\ argv \in ArgVectors
    /\ optind \in 1 .. (Len(argv) + 1)
    /\ nextchar \in 0 .. 3
    /\ pc \in {"parse_args", "main", "catch", "exit"}
    /\ exit_status \in {-1, EXIT_SUCCESS, EXIT_FAILURE}
    /\ app_calls \in 0 .. 1
    /\ parsed_opts \subseteq (OptsWithArg \cup OptsNoArg)

---------------------------------------------------------------------------
\* Whether a double (m, e) lies outside [0, 1].
RECURSIVE Pow10(_)
Pow10(e) == IF e = 0 THEN 1 ELSE 10 * Pow10(e - 1)

OutsideUnitInterval(d) == d.m < 0 \/ d.m > Pow10(d.e)

InvalidConfig(a) ==
    \/ a.ngram_length < 1
    \/ a.number_of_words < 0
    \/ OutsideUnitInterval(a.compound_probability)

\* C1: a run that generates with word count N >= 0 has produced exactly N
\* words when it ends.
C1_CountResults ==
    (pc = "exit" /\ app_calls = 1 /\ args.number_of_words >= 0)
        => Len(words) = args.number_of_words

\* C5: an order < 1, a compound probability outside [0,1] or a negative word
\* count is rejected: generation is never entered with such parameters, and
\* the run ends in failure.
C5_InvalidRejected ==
    InvalidConfig(args)
        => /\ app_calls = 0
           /\ (pc = "exit" => exit_status = EXIT_FAILURE)

\* C7: a parameter whose option has not been parsed holds its default:
\* compound probability 0, n-gram order 3, word count 10, empty prefix;
\* in particular these are handed to application_main when no option is given.
C7_Defaults ==
    /\ "c" \notin parsed_opts => args.compound_probability = [m |-> 0, e |-> 0]
    /\ "g" \notin parsed_opts => args.ngram_length = 3
    /\ "n" \notin parsed_opts => args.number_of_words = 10
    /\ "p" \notin parsed_opts => args.constrained_prefix = <<>>

\* C7 witness: application_main has run with -g parsed to a non-default order
\* while -n was not given.
C7_Witness ==
    /\ app_calls = 1
    /\ "g" \in parsed_opts
    /\ "n" \notin parsed_opts
    /\ args.ngram_length # 3

\* C8: the step that parses -w WIDTH leaves the dictionary path alone, and the
\* step that parses -p PREFIX sets the constrained prefix to PREFIX and changes
\* no other parameter.
C8_FlagWiring ==
    [][ /\ (optch' = "w" /\ optind' > optind)
            => args'.dictionary_filename = args.dictionary_filename
        /\ (optch' = "p" /\ optind' > optind)
            => args' = [args EXCEPT !.constrained_prefix = NextOpt.optarg]
      ]_vars

\* C10: application_main is invoked at most once, only after parse_args has
\* returned without an exception and without -h among the parsed options; a
\* missing option argument or an unknown option ends the run with EXIT_FAILURE
\* and no invocation.
C10_AppMainOnce ==
    /\ app_calls <= 1
    /\ app_calls = 1
        => /\ what = ""
           /\ optch = "EOF"
           /\ "h" \notin parsed_opts
           /\ pc = "exit"
    /\ what # "" => app_calls = 0
    /\ (pc = "exit" /\ what \in {"missing argument", "unknown option"})
        => exit_status = EXIT_FAILURE
    /\ "h" \in parsed_opts => app_calls = 0

\* C10 witness: a run that parsed -h together with another option has ended
\* normally without invoking application_main.
C10_Witness ==
    /\ pc = "exit"
    /\ exit_status = EXIT_SUCCESS
    /\ "h" \in parsed_opts
    /\ parsed_opts # {"h"}
    /\ app_calls = 0

=============================================================================
